---- MODULE Spec2Model ----
(***************************************************************************)
(* Loss and likelihood utilities of CNPP-SAHP (utils.py).                  *)
(*                                                                         *)
(* Tensors are sequences (of sequences).  Numbers are exact: a rational is *)
(* a normalised pair <<n, d>>, a logarithm of a positive rational is the   *)
(* vector of its prime exponents, and the IEEE values inf / -inf / nan are *)
(* kept apart from the finite values because 0 * inf = nan.                *)
(***************************************************************************)
EXTENDS Integers, Sequences, FiniteSets, Bags, TLC

VARIABLES pc,
          \* LabelSmoothingLoss.forward
          eps, num_classes, ignore_index, output, target, one_hot, loss,
          \* the padding mask, a local of forward and of log_likelihood and a
          \* parameter of compute_event and compute_integral_biased
          non_pad_mask,
          \* type_loss
          prediction, types, loss_func, truth, pred_type,
          correct_num, true_list, pred_list, loss_r,
          \* time_loss
          event_time, se,
          \* compute_event, compute_integral_biased
          event, all_lambda, time, result,
          \* log_likelihood, compute_integral_unbiased
          num_types, beta, alpha, all_hid, type_mask, type_lambda,
          event_ll, unbiased_integral, non_event_ll

lsvars == <<eps, num_classes, ignore_index, output, target, one_hot, loss>>
tlvars == <<prediction, types, loss_func, truth, pred_type,
            correct_num, true_list, pred_list, loss_r>>
tmvars == <<event_time, se>>
cevars == <<event, all_lambda, time, result>>
llvars == <<num_types, beta, alpha, all_hid, type_mask, type_lambda,
            event_ll, unbiased_integral, non_event_ll>>
vars == <<pc, non_pad_mask, lsvars, tlvars, tmvars, cevars, llvars>>

\* ------------------------------------------------------------------ bounds
MaxPos == 2
MaxClasses == 2
MaxLen == 3

\* ------------------------------------------------------- exact arithmetic
Abs(x) == IF x < 0 THEN -x ELSE x

RECURSIVE GCD(_, _)
GCD(a, b) == IF b = 0 THEN Abs(a) ELSE GCD(b, a % b)

Q(n, d) ==
    LET s == IF d < 0 THEN -1 ELSE 1
        g == GCD(Abs(n), Abs(d))
    IN  <<(s * n) \div g, (s * d) \div g>>

QInt(n) == <<n, 1>>
QZero == <<0, 1>>
QOne == <<1, 1>>
QAdd(a, b) == Q(a[1] * b[2] + b[1] * a[2], a[2] * b[2])
QSub(a, b) == Q(a[1] * b[2] - b[1] * a[2], a[2] * b[2])
QMul(a, b) == Q(a[1] * b[1], a[2] * b[2])
QDivInt(a, k) == Q(a[1], a[2] * k)

RECURSIVE SeqSum(_)
SeqSum(s) == IF s = <<>> THEN 0 ELSE Head(s) + SeqSum(Tail(s))

RECURSIVE QSeqSum(_)
QSeqSum(s) == IF s = <<>> THEN QZero ELSE QAdd(Head(s), QSeqSum(Tail(s)))

\* ln of a positive integer as the vector of its prime exponents
Primes == {2, 3, 5, 7, 11, 13}

RECURSIVE Mult(_, _)
Mult(p, n) == IF n % p = 0 THEN 1 + Mult(p, n \div p) ELSE 0

LnInt(n) == [p \in Primes |-> QInt(Mult(p, n))]
LnZero == [p \in Primes |-> QZero]
LnAdd(u, v) == [p \in Primes |-> QAdd(u[p], v[p])]
LnSub(u, v) == [p \in Primes |-> QSub(u[p], v[p])]
LnScale(q, u) == [p \in Primes |-> QMul(q, u[p])]

\* IEEE values: a finite value (here a logarithm), +inf, -inf or nan
Fin(u) == [k |-> "fin", v |-> u]
PosInf == [k |-> "inf", v |-> LnZero]
NegInf == [k |-> "ninf", v |-> LnZero]
NaN == [k |-> "nan", v |-> LnZero]
FZero == Fin(LnZero)

\* rational * value
FMulQ(q, x) ==
    CASE x.k = "fin" -> Fin(LnScale(q, x.v))
      [] x.k = "nan" -> NaN
      [] q[1] = 0 -> NaN
      [] q[1] > 0 -> x
      [] OTHER -> IF x.k = "inf" THEN NegInf ELSE PosInf

FAdd(x, y) ==
    CASE x.k = "nan" \/ y.k = "nan" -> NaN
      [] x.k = "fin" /\ y.k = "fin" -> Fin(LnAdd(x.v, y.v))
      [] x.k = "fin" -> y
      [] y.k = "fin" -> x
      [] x.k = y.k -> x
      [] OTHER -> NaN

FNeg(x) == FMulQ(QInt(-1), x)

RECURSIVE FSeqSum(_)
FSeqSum(s) == IF s = <<>> THEN FZero ELSE FAdd(Head(s), FSeqSum(Tail(s)))

\* ------------------------------------------------- LabelSmoothingLoss
\* A logit x is held as e^x, a natural number; 0 stands for x = -inf.
LogitRows(K) ==
    { [c \in 1..K |-> 1],
      [c \in 1..K |-> c],
      [c \in 1..K |-> IF c = 1 /\ K > 1 THEN 0 ELSE 2],
      [c \in 1..K |-> IF c = K /\ K > 1 THEN 0 ELSE 3] }

EpsSet == {<<1, 2>>, <<1, 4>>, <<1, 1>>}
IgnoreSet == {-100, -1}

\* F.log_softmax(output, dim=-1) of one row
LogSoftmax(row) ==
    LET S == SeqSum(row)
    IN  [c \in 1..Len(row) |->
            IF S = 0 THEN NaN
            ELSE IF row[c] = 0 THEN NegInf
            ELSE Fin(LnSub(LnInt(row[c]), LnInt(S)))]

\* target.ne(self.ignore_index).float()
NonPadMask(tgt, ign) == [i \in 1..Len(tgt) |-> IF tgt[i] # ign THEN 1 ELSE 0]

\* mutant: the assignment is made on a copy, the caller's target is untouched
MaskedAssign_OnCopy(tgt, ign) == tgt

\* target[target.eq(self.ignore_index)] = 0
MaskedAssign(tgt, ign) == [i \in 1..Len(tgt) |-> IF tgt[i] = ign THEN 0 ELSE tgt[i]]

\* F.one_hot(target, num_classes); class c of the code is index c + 1 here
OneHot(t, K) == [c \in 1..K |-> IF c = t + 1 THEN 1 ELSE 0]

\* one_hot * (1 - eps) + (1 - one_hot) * eps / num_classes
Smooth(oh, e, K) ==
    [c \in 1..Len(oh) |->
        QAdd(QMul(QInt(oh[c]), QSub(QOne, e)),
             QDivInt(QMul(QInt(1 - oh[c]), e), K))]

\* -(one_hot * log_prb).sum(dim=-1)
CrossEntropy(w, row) ==
    LET lp == LogSoftmax(row)
    IN  FNeg(FSeqSum([c \in 1..Len(row) |-> FMulQ(w[c], lp[c])]))

\* F.one_hot raises on a class value outside 0..num_classes-1
OneHotRaises(tgt, K) == \E i \in 1..Len(tgt) : tgt[i] < 0 \/ tgt[i] >= K

\* variables of the functions a specification does not exercise
IdleLS ==
    /\ eps = QZero /\ num_classes = 0 /\ ignore_index = 0
    /\ output = <<>> /\ target = <<>>
    /\ one_hot = <<>> /\ loss = <<>>

IdleTL ==
    /\ prediction = <<>> /\ types = <<>> /\ loss_func = "none"
    /\ truth = <<>> /\ pred_type = <<>> /\ correct_num = 0
    /\ true_list = <<>> /\ pred_list = <<>> /\ loss_r = FZero

IdleTM == event_time = <<>> /\ se = 0

IdleLL ==
    /\ num_types = 0 /\ beta = 0 /\ alpha = QZero /\ all_hid = <<>>
    /\ type_mask = <<>> /\ type_lambda = <<>>
    /\ event_ll = <<>> /\ unbiased_integral = <<>> /\ non_event_ll = <<>>

IdleCE == event = <<>> /\ all_lambda = <<>> /\ time = <<>> /\ result = <<>>

InitLS ==
    /\ pc = "call"
    /\ eps \in EpsSet
    /\ num_classes \in 1..MaxClasses
    /\ ignore_index \in IgnoreSet
    /\ \E N \in 1..MaxPos :
          /\ output \in [1..N -> LogitRows(num_classes)]
          /\ target \in [1..N -> (0..(num_classes - 1)) \cup IgnoreSet]
    /\ non_pad_mask = <<>>
    /\ one_hot = <<>>
    /\ loss = <<>>
    /\ IdleTL /\ IdleTM /\ IdleCE /\ IdleLL

\* forward, lines 164-168: the mask, the in-place assignment, the weights
SmoothedTarget(t1, e, K) ==
    [i \in 1..Len(t1) |-> Smooth(OneHot(t1[i], K), e, K)]

\* forward, lines 170-172: the masked per-position loss
MaskedLoss(m, w, out) ==
    [i \in 1..Len(m) |-> FMulQ(QInt(m[i]), CrossEntropy(w[i], out[i]))]

\* LabelSmoothingLoss.forward(output, target), returning
ForwardReturns ==
    /\ pc = "call"
    /\ LET m == NonPadMask(target, ignore_index)
           t1 == MaskedAssign(target, ignore_index)
           w == SmoothedTarget(t1, eps, num_classes)
       IN  /\ ~OneHotRaises(t1, num_classes)
           /\ non_pad_mask' = m
           /\ target' = t1
           /\ one_hot' = w
           /\ loss' = MaskedLoss(m, w, output)
    /\ pc' = "done"
    /\ UNCHANGED <<eps, num_classes, ignore_index, output, tlvars, tmvars, cevars, llvars>>

\* LabelSmoothingLoss.forward(output, target), F.one_hot raising at line 167
ForwardRaises ==
    /\ pc = "call"
    /\ LET m == NonPadMask(target, ignore_index)
           t1 == MaskedAssign(target, ignore_index)
       IN  /\ OneHotRaises(t1, num_classes)
           /\ non_pad_mask' = m
           /\ target' = t1
    /\ pc' = "raised"
    /\ UNCHANGED <<eps, num_classes, ignore_index, output, one_hot, loss, tlvars, tmvars, cevars, llvars>>

Forward == ForwardReturns \/ ForwardRaises

NextLS == Forward

SpecLS == InitLS /\ [][NextLS]_vars

\* C1: the smoothed target distribution of every position sums to exactly 1
\* over the classes.
C1_SmoothedSumsToOne ==
    pc = "done" => \A i \in 1..Len(one_hot) : QSeqSum(one_hot[i]) = QOne

\* C2: forward returns one loss per position; a position whose target on
\* entry is the ignore sentinel has loss exactly 0, whatever its logits, and
\* every other position keeps its cross-entropy value.
C2_IgnoredLossZero ==
    [][(pc = "call" /\ pc' = "done") =>
          /\ Len(loss') = Len(target)
          /\ \A i \in 1..Len(target) :
                IF target[i] = ignore_index
                THEN loss'[i] = FZero
                ELSE loss'[i] = CrossEntropy(one_hot'[i], output[i])]_vars

\* C7: forward replaces, in the caller's target, every entry equal to the
\* ignore sentinel by 0 and leaves every other entry and the logits alone.
C7_TargetMutatedInPlace ==
    [][(pc = "call" /\ pc' # "call") =>
          /\ Len(target') = Len(target)
          /\ \A i \in 1..Len(target) :
                target'[i] = IF target[i] = ignore_index THEN 0 ELSE target[i]
          /\ output' = output]_vars

C7_Witness ==
    /\ pc = "done"
    /\ \E i, j \in 1..Len(target) :
          /\ non_pad_mask[i] = 0 /\ target[i] = 0
          /\ non_pad_mask[j] = 1 /\ target[j] # 0

\* ---------------------------------------------------------------- type_loss
BatchSizes == {1, 2}
TypeCounts == {2}

\* the class scores of a batch: a row of e^score per sequence and position
PredBatches(B, L, K) ==
    { [b \in 1..B |-> [t \in 1..L |-> [c \in 1..K |-> c]]],
      [b \in 1..B |-> [t \in 1..L |-> [c \in 1..K |->
           IF (b + t) % 2 = 0 THEN c ELSE K + 1 - c]]],
      [b \in 1..B |-> [t \in 1..L |-> [c \in 1..K |->
           IF t = 1 THEN 1 ELSE (IF c = 1 THEN 0 ELSE 2)]]] }

\* sequences are padded on the right with type 0
RightPadded(ty) == \A t \in 1..(Len(ty) - 1) : ty[t] = 0 => ty[t + 1] = 0

\* loss_func: a LabelSmoothingLoss, or a plain cross entropy ignoring -1
LossFuncs(K) ==
    { [ls |-> TRUE, eps |-> <<1, 2>>, num_classes |-> K, ignore_index |-> -1],
      [ls |-> TRUE, eps |-> <<1, 4>>, num_classes |-> K, ignore_index |-> -100],
      [ls |-> FALSE, eps |-> QZero, num_classes |-> K, ignore_index |-> -1] }

\* mutant: the truth is not shifted, types[:, :-1] - 1
Truth_NotShifted(ty) ==
    [b \in 1..Len(ty) |-> [t \in 1..(Len(ty[b]) - 1) |-> ty[b][t] - 1]]

\* truth = types[:, 1:] - 1
Truth(ty) == [b \in 1..Len(ty) |-> [t \in 1..(Len(ty[b]) - 1) |-> ty[b][t + 1] - 1]]

\* prediction = prediction[:, :-1, :]
DropLast(pr) == [b \in 1..Len(pr) |-> SubSeq(pr[b], 1, Len(pr[b]) - 1)]

\* torch.max(prediction, dim=-1)[1]: the indices (from 0) of a maximal score
ArgMaxSet(row) ==
    {c - 1 : c \in {d \in 1..Len(row) : \A e \in 1..Len(row) : row[e] <= row[d]}}

\* torch.sum(pred_type == truth)
RECURSIVE CountEq(_, _)
CountEq(a, b) ==
    IF a = <<>> THEN 0
    ELSE (IF Head(a) = Head(b) THEN 1 ELSE 0) + CountEq(Tail(a), Tail(b))

RECURSIVE CorrectNum(_, _)
CorrectNum(pt, tr) ==
    IF pt = <<>> THEN 0
    ELSE CountEq(Head(pt), Head(tr)) + CorrectNum(Tail(pt), Tail(tr))

\* torch.nonzero(truth[i] == -1): the positions (from 0) holding -1, ascending
RECURSIVE PosArray(_, _)
PosArray(tr, from) ==
    IF tr = <<>> THEN <<>>
    ELSE (IF Head(tr) = -1 THEN <<from>> ELSE <<>>) \o PosArray(Tail(tr), from + 1)

\* mutant: the cut keeps the first padding entry, [:pos_array[0] + 1]
Trimmed_KeepsPad(row, tr) ==
    LET pos_array == PosArray(tr, 0)
    IN  IF Len(pos_array) = 0 THEN row ELSE SubSeq(row, 1, pos_array[1] + 1)

\* one pass of the loop of lines 109-117 for a row: the part appended
Trimmed(row, tr) ==
    LET pos_array == PosArray(tr, 0)
    IN  IF Len(pos_array) = 0 THEN row ELSE SubSeq(row, 1, pos_array[1])

RECURSIVE ExtendAll(_, _)
ExtendAll(rows, tr) ==
    IF rows = <<>> THEN <<>>
    ELSE Trimmed(Head(rows), Head(tr)) \o ExtendAll(Tail(rows), Tail(tr))

RECURSIVE Flatten(_)
Flatten(rows) == IF rows = <<>> THEN <<>> ELSE Head(rows) \o Flatten(Tail(rows))

\* nn.CrossEntropyLoss(ignore_index=-1, reduction='none') at one position
PlainCrossEntropy(row, t) ==
    IF t = -1 THEN FZero ELSE FNeg(LogSoftmax(row)[t + 1])

\* the per-position loss of loss_func(prediction, truth), flattened
LossOf(lf, pr, tr) ==
    LET out == Flatten(pr)
        tgt == Flatten(tr)
    IN  IF lf.ls
        THEN LET m == NonPadMask(tgt, lf.ignore_index)
                 t1 == MaskedAssign(tgt, lf.ignore_index)
             IN  MaskedLoss(m, SmoothedTarget(t1, lf.eps, lf.num_classes), out)
        ELSE [i \in 1..Len(tgt) |-> PlainCrossEntropy(out[i], tgt[i])]

\* loss_func(prediction, truth) raises: F.one_hot on a negative class
LossRaises(lf, tr) ==
    lf.ls /\ OneHotRaises(MaskedAssign(Flatten(tr), lf.ignore_index), lf.num_classes)

InitTL ==
    /\ pc = "call"
    /\ \E B \in BatchSizes, L \in 2..MaxLen, K \in TypeCounts :
          /\ prediction \in PredBatches(B, L, K)
          /\ types \in [1..B -> [1..L -> 0..K]]
          /\ \A b \in 2..B : RightPadded(types[b])
          /\ loss_func \in LossFuncs(K)
    /\ truth = <<>> /\ pred_type = <<>> /\ correct_num = 0
    /\ true_list = <<>> /\ pred_list = <<>> /\ loss_r = FZero
    /\ non_pad_mask = <<>>
    /\ IdleLS /\ IdleTM /\ IdleCE /\ IdleLL

\* type_loss(prediction, types, loss_func), lines 98-117
TypeLossBody(pt) ==
    LET tr == Truth(types)
        pr == DropLast(prediction)
    IN  /\ \A b \in 1..Len(pr) : \A t \in 1..Len(pr[b]) : pt[b][t] \in ArgMaxSet(pr[b][t])
        /\ truth' = tr
        /\ pred_type' = pt
        /\ correct_num' = CorrectNum(pt, tr)
        /\ true_list' = ExtendAll(tr, tr)
        /\ pred_list' = ExtendAll(pt, tr)

TypeLossReturns ==
    /\ pc = "call"
    /\ ~LossRaises(loss_func, Truth(types))
    /\ \E pt \in [1..Len(types) -> [1..(Len(types[1]) - 1) -> 0..(loss_func.num_classes - 1)]] :
          TypeLossBody(pt)
    /\ loss_r' = FSeqSum(LossOf(loss_func, DropLast(prediction), Truth(types)))
    /\ pc' = "done"
    /\ UNCHANGED <<prediction, types, loss_func, non_pad_mask, lsvars, tmvars, cevars, llvars>>

\* loss_func raises at line 120: type_loss returns nothing
TypeLossRaises ==
    /\ pc = "call"
    /\ LossRaises(loss_func, Truth(types))
    /\ pc' = "raised"
    /\ UNCHANGED <<tlvars, non_pad_mask, lsvars, tmvars, cevars, llvars>>

TypeLoss == TypeLossReturns \/ TypeLossRaises

NextTL == TypeLoss

SpecTL == InitTL /\ [][NextTL]_vars

\* the first position (from 1) of sequence b whose shifted truth is padding
PadAt(b) == {t \in 1..(Len(types[b]) - 1) : types[b][t + 1] = 0}
KeptLen(b) ==
    IF PadAt(b) = {} THEN Len(types[b]) - 1
    ELSE (CHOOSE t \in PadAt(b) : \A u \in PadAt(b) : t <= u) - 1

\* C4: the correct-count is the number of positions (b, t) where the arg-max
\* class of prediction[b, t] equals types[b, t+1] - 1; a position whose
\* shifted truth is -1 is never counted; types [1,2,0] give truth [1,-1].
C4_CorrectCount ==
    pc = "done" =>
       LET hits == {bt \in (1..Len(types)) \X (1..(Len(types[1]) - 1)) :
                       pred_type[bt[1]][bt[2]] = types[bt[1]][bt[2] + 1] - 1}
       IN  /\ \A b \in 1..Len(types) : \A t \in 1..(Len(types[b]) - 1) :
                 pred_type[b][t] \in ArgMaxSet(prediction[b][t])
           /\ correct_num = Cardinality(hits)
           /\ \A bt \in hits : types[bt[1]][bt[2] + 1] # 0
           /\ \A b \in 1..Len(types) : types[b] = <<1, 2, 0>> => truth[b] = <<1, -1>>

C4_Witness ==
    /\ pc = "done"
    /\ correct_num > 0
    /\ \E b \in 1..Len(types) :
          /\ types[b] = <<1, 2, 0>>
          /\ pred_type[b] = <<1, 0>>

\* C5: the truth and prediction lists are, sequence after sequence, the
\* shifted truth and the arg-max predictions cut at the first -1 of the
\* shifted truth: equal lengths, no -1 in the truth list, entries aligned.
C5_TrimmedLists ==
    pc = "done" =>
       LET kept == [b \in 1..Len(types) |-> KeptLen(b)]
       IN  /\ Len(true_list) = Len(pred_list)
           /\ \A k \in 1..Len(true_list) : true_list[k] # -1
           /\ true_list = Flatten([b \in 1..Len(types) |->
                               [t \in 1..kept[b] |-> types[b][t + 1] - 1]])
           /\ pred_list = Flatten([b \in 1..Len(types) |->
                               [t \in 1..kept[b] |-> pred_type[b][t]]])

C5_Witness ==
    /\ pc = "done"
    /\ Len(types) = 2
    /\ PadAt(1) # {} /\ KeptLen(1) > 0
    /\ PadAt(2) = {}
    /\ Len(true_list) = KeptLen(1) + KeptLen(2)
    /\ pred_list # true_list

\* ---------------------------------------------------------------- time_loss
TimeSet == {0, 1}
GapPredSet == {0, 1}

\* prediction.squeeze_(-1): the trailing dimension of size 1 is removed
Squeeze(pr) == [b \in 1..Len(pr) |-> [t \in 1..Len(pr[b]) |-> pr[b][t][1]]]

\* mutant: the gap is taken backwards, event_time[:, :-1] - event_time[:, 1:]
Gaps_Backwards(tm) ==
    [b \in 1..Len(tm) |-> [t \in 1..(Len(tm[b]) - 1) |-> tm[b][t] - tm[b][t + 1]]]

\* event_time[:, 1:] - event_time[:, :-1]
Gaps(tm) == [b \in 1..Len(tm) |-> [t \in 1..(Len(tm[b]) - 1) |-> tm[b][t + 1] - tm[b][t]]]

\* diff = prediction - true; torch.sum(diff * diff)
SquaredError(pr, tr) ==
    SeqSum(Flatten([b \in 1..Len(pr) |->
              [t \in 1..Len(pr[b]) |-> (pr[b][t] - tr[b][t]) * (pr[b][t] - tr[b][t])]]))

InitTM ==
    /\ pc = "call"
    /\ \E B \in BatchSizes, L \in 2..MaxLen :
          /\ prediction \in [1..B -> [1..L -> {<<g>> : g \in GapPredSet}]]
          /\ event_time \in [1..B -> [1..L -> TimeSet]]
    /\ se = 0
    /\ types = <<>> /\ loss_func = "none"
    /\ truth = <<>> /\ pred_type = <<>> /\ correct_num = 0
    /\ true_list = <<>> /\ pred_list = <<>> /\ loss_r = FZero
    /\ non_pad_mask = <<>>
    /\ IdleLS /\ IdleCE /\ IdleLL

\* time_loss(prediction, event_time)
TimeLoss ==
    /\ pc = "call"
    /\ prediction' = Squeeze(prediction)
    /\ se' = SquaredError(DropLast(prediction'), Gaps(event_time))
    /\ pc' = "done"
    /\ UNCHANGED <<event_time, non_pad_mask, lsvars, cevars, llvars, types, loss_func,
                   truth, pred_type, correct_num, true_list, pred_list, loss_r>>

NextTM == TimeLoss

SpecTM == InitTM /\ [][NextTM]_vars

RECURSIVE SumOver(_, _)
SumOver(S, f) ==
    IF S = {} THEN 0
    ELSE LET x == CHOOSE y \in S : TRUE IN f[x] + SumOver(S \ {x}, f)

\* C6: time_loss returns the sum, over every sequence b and every position t
\* but the last, of (prediction[b,t] - (event_time[b,t+1] - event_time[b,t]))^2,
\* hence exactly 0 when the prediction equals the true gaps there.
C6_SumOfSquares ==
    pc = "done" =>
       LET I == (1..Len(event_time)) \X (1..(Len(event_time[1]) - 1))
           d == [bt \in I |-> prediction[bt[1]][bt[2]]
                               - (event_time[bt[1]][bt[2] + 1] - event_time[bt[1]][bt[2]])]
       IN  /\ se = SumOver(I, [bt \in I |-> d[bt] * d[bt]])
           /\ (\A bt \in I : d[bt] = 0) => se = 0

C6_Witness ==
    /\ pc = "done"
    /\ se = 0
    /\ Len(event_time) = 2
    /\ \E t \in 1..(Len(event_time[1]) - 1) : event_time[1][t + 1] # event_time[1][t]
    /\ prediction[1][Len(prediction[1])] # 0

\* ------------------------------------------------------------ intensities
\* A finite intensity is c + (the sum of the softplus values in the bag sp)
\* + e * 1e-9, with c rational; a softplus value ln(1 + e^t) / b is the pair
\* <<t, b>> and is strictly positive.  The other intensities are inf and nan.
EpsInv == 1000000000

IQ(q) == [k |-> "fin", c |-> q, sp |-> EmptyBag, e |-> 0]
ISp(t, b) == [k |-> "fin", c |-> QZero, sp |-> SetToBag({<<t, b>>}), e |-> 0]
IInf == [k |-> "inf", c |-> QZero, sp |-> EmptyBag, e |-> 0]
INaN == [k |-> "nan", c |-> QZero, sp |-> EmptyBag, e |-> 0]
IZero == IQ(QZero)
IOne == IQ(QOne)

\* x + math.pow(10, -9)
AddEps(x) == IF x.k = "fin" THEN [x EXCEPT !.e = @ + 1] ELSE x

IAdd(x, y) ==
    CASE x.k = "nan" \/ y.k = "nan" -> INaN
      [] x.k = "fin" /\ y.k = "fin" ->
            [k |-> "fin", c |-> QAdd(x.c, y.c), sp |-> x.sp (+) y.sp, e |-> x.e + y.e]
      [] OTHER -> IInf

\* x * m for a mask entry m in {0, 1}
IMulMask(x, m) ==
    IF m = 1 THEN x ELSE IF x.k = "fin" THEN IZero ELSE INaN

\* torch.sum over one dimension, the entries lo..hi of s
RECURSIVE ISumRange(_, _, _)
ISumRange(s, lo, hi) ==
    IF lo > hi THEN IZero
    ELSE IF lo = hi THEN s[lo]
    ELSE LET mid == (lo + hi) \div 2
         IN  IAdd(ISumRange(s, lo, mid), ISumRange(s, mid + 1, hi))

ISeqSum(s) == ISumRange(s, 1, Len(s))

IsOne(x) ==
    /\ x.k = "fin" /\ x.sp = EmptyBag
    /\ \/ x.e = 0 /\ x.c = QOne
       \/ x.e > 0 /\ x.c = Q(EpsInv - x.e, EpsInv)
IsZero(x) == x.k = "fin" /\ x.sp = EmptyBag /\ x.e = 0 /\ x.c = QZero
IsNegative(x) ==
    /\ x.k = "fin" /\ x.sp = EmptyBag
    /\ x.c[1] < 0
    /\ (x.e * x.c[2]) \div (-x.c[1]) < EpsInv

\* A logarithm, or a sum of logarithms, is the bag of its arguments (log 1
\* is the empty bag), or inf, -inf, nan.
LFin(bag) == [k |-> "fin", lg |-> bag]
LZero == LFin(EmptyBag)
LPosInf == [k |-> "inf", lg |-> EmptyBag]
LNegInf == [k |-> "ninf", lg |-> EmptyBag]
LNaN == [k |-> "nan", lg |-> EmptyBag]

\* torch.log
Log(x) ==
    CASE x.k = "nan" -> LNaN
      [] x.k = "inf" -> LPosInf
      [] IsZero(x) -> LNegInf
      [] IsNegative(x) -> LNaN
      [] IsOne(x) -> LZero
      [] OTHER -> LFin(SetToBag({x}))

LAdd(x, y) ==
    CASE x.k = "nan" \/ y.k = "nan" -> LNaN
      [] x.k = "fin" /\ y.k = "fin" -> LFin(x.lg (+) y.lg)
      [] x.k = "fin" -> y
      [] y.k = "fin" -> x
      [] x.k = y.k -> x
      [] OTHER -> LNaN

\* torch.sum(., dim=-1) of a row of logarithms
RECURSIVE LSeqSum(_)
LSeqSum(s) == IF s = <<>> THEN LZero ELSE LAdd(Head(s), LSeqSum(Tail(s)))

\* ------------------------------------------------------------ compute_event
EventSet == {IQ(QZero), IQ(QOne), IQ(QInt(2)), IQ(QInt(-1)), IInf, INaN}
MaskSet == {0, 1}

\* mutant: the padding is filled before 1e-9 is added
FilledEvent_FillFirst(ev, mask) ==
    [b \in 1..Len(ev) |-> [t \in 1..Len(ev[b]) |->
        AddEps(IF mask[b][t] = 0 THEN IOne ELSE ev[b][t])]]

\* event += 1e-9; event.masked_fill_(~non_pad_mask.bool(), 1.0)
FilledEvent(ev, mask) ==
    [b \in 1..Len(ev) |-> [t \in 1..Len(ev[b]) |->
        IF mask[b][t] = 0 THEN IOne ELSE AddEps(ev[b][t])]]

\* torch.log(event)
LogAll(ev) == [b \in 1..Len(ev) |-> [t \in 1..Len(ev[b]) |-> Log(ev[b][t])]]

InitCE ==
    /\ pc = "call"
    /\ \E L \in 1..MaxLen :
          /\ event \in [1..1 -> [1..L -> EventSet]]
          /\ non_pad_mask \in [1..1 -> [1..L -> MaskSet]]
    /\ all_lambda = <<>> /\ time = <<>> /\ result = <<>>
    /\ IdleLS /\ IdleTL /\ IdleTM /\ IdleLL

\* compute_event(event, non_pad_mask)
ComputeEvent ==
    /\ pc = "call"
    /\ event' = FilledEvent(event, non_pad_mask)
    /\ result' = LogAll(event')
    /\ pc' = "done"
    /\ UNCHANGED <<non_pad_mask, all_lambda, time, lsvars, tlvars, tmvars, llvars>>

NextCE == ComputeEvent

SpecCE == InitCE /\ [][NextCE]_vars

RECURSIVE LSumOver(_, _)
LSumOver(S, f) ==
    IF S = {} THEN LZero
    ELSE LET x == CHOOSE y \in S : TRUE IN LAdd(f[x], LSumOver(S \ {x}, f))

\* C3: compute_event yields exactly 0 at every padded position, whatever
\* intensity was passed there, so the sum of the result over a sequence is
\* the sum of log(intensity + 1e-9) over its real positions.
C3_PaddedEventZero ==
    [][(pc = "call" /\ pc' = "done") =>
          \A b \in 1..Len(event) :
             LET real == {t \in 1..Len(event[b]) : non_pad_mask[b][t] # 0}
             IN  /\ \A t \in 1..Len(event[b]) :
                       non_pad_mask[b][t] = 0 => result'[b][t] = LZero
                 /\ LSeqSum(result'[b]) =
                       LSumOver(real, [t \in real |-> Log(AddEps(event[b][t]))])]_vars

C3_Witness ==
    /\ pc = "done"
    /\ \E t, u, v \in 1..Len(result[1]) :
          /\ non_pad_mask[1][t] = 0 /\ result[1][t] = LZero
          /\ non_pad_mask[1][u] = 1 /\ result[1][u].k = "fin" /\ result[1][u] # LZero
          /\ non_pad_mask[1][v] = 0 /\ v # t

\* -------------------------------------------------- compute_integral_biased
LambdaSet == {0, 1, 3}
IBTimeSet == {0, 1, 3}

\* mutant: the gap is not masked
DiffTime_Unmasked(tm, mask) ==
    [b \in 1..Len(tm) |-> [t \in 1..(Len(tm[b]) - 1) |-> tm[b][t + 1] - tm[b][t]]]

\* (time[:, 1:] - time[:, :-1]) * non_pad_mask[:, 1:]
DiffTime(tm, mask) ==
    [b \in 1..Len(tm) |-> [t \in 1..(Len(tm[b]) - 1) |->
        (tm[b][t + 1] - tm[b][t]) * mask[b][t + 1]]]

\* mutant: the sum is masked by the earlier position, non_pad_mask[:, :-1]
DiffLambda_EarlierMask(lam, mask) ==
    [b \in 1..Len(lam) |-> [t \in 1..(Len(lam[b]) - 1) |->
        (lam[b][t + 1] + lam[b][t]) * mask[b][t]]]

\* (all_lambda[:, 1:] + all_lambda[:, :-1]) * non_pad_mask[:, 1:]
DiffLambda(lam, mask) ==
    [b \in 1..Len(lam) |-> [t \in 1..(Len(lam[b]) - 1) |->
        (lam[b][t + 1] + lam[b][t]) * mask[b][t + 1]]]

\* 0.5 * (diff_lambda * diff_time)
BiasedIntegral(dl, dt) ==
    [b \in 1..Len(dl) |-> [t \in 1..Len(dl[b]) |->
        QMul(<<1, 2>>, QInt(dl[b][t] * dt[b][t]))]]

InitIB ==
    /\ pc = "call"
    /\ \E L \in 2..MaxLen :
          /\ all_lambda \in [1..1 -> [1..L -> LambdaSet]]
          /\ time \in [1..1 -> [1..L -> IBTimeSet]]
          /\ non_pad_mask \in [1..1 -> [1..L -> MaskSet]]
    /\ event = <<>> /\ result = <<>>
    /\ IdleLS /\ IdleTL /\ IdleTM /\ IdleLL

\* compute_integral_biased(all_lambda, time, non_pad_mask)
ComputeIntegralBiased ==
    /\ pc = "call"
    /\ result' = BiasedIntegral(DiffLambda(all_lambda, non_pad_mask),
                                DiffTime(time, non_pad_mask))
    /\ pc' = "done"
    /\ UNCHANGED <<non_pad_mask, event, all_lambda, time, lsvars, tlvars, tmvars, llvars>>

NextIB == ComputeIntegralBiased

SpecIB == InitIB /\ [][NextIB]_vars

\* C8: compute_integral_biased returns, for each adjacent pair (t, t+1), the
\* trapezoid (time[t+1] - time[t]) * (lambda[t] + lambda[t+1]) / 2 when t+1
\* is a real event and exactly 0 when t+1 is padding; the value is a function
\* of the inputs alone.
C8_Trapezoid ==
    pc = "done" =>
       \A b \in 1..Len(time) :
          /\ Len(result[b]) = Len(time[b]) - 1
          /\ \A t \in 1..(Len(time[b]) - 1) :
                result[b][t] =
                   IF non_pad_mask[b][t + 1] = 1
                   THEN Q((time[b][t + 1] - time[b][t])
                            * (all_lambda[b][t] + all_lambda[b][t + 1]), 2)
                   ELSE QZero

C8_Witness ==
    /\ pc = "done"
    /\ \E t, u \in 1..Len(result[1]) :
          /\ non_pad_mask[1][t + 1] = 1 /\ result[1][t][2] = 2
          /\ non_pad_mask[1][u + 1] = 0 /\ non_pad_mask[1][u] = 1
          /\ time[1][u + 1] # time[1][u] /\ all_lambda[1][u] > 0

\* ------------------------------------------------------------ log_likelihood
num_samples == 100

BetaSet == {-2, 1}
AlphaSet == {<<-1, 10>>}
\* event times: unit gaps, gaps of 2, and unit gaps with times 0 from the
\* third position on
TimeSeqs(L) ==
    { [t \in 1..L |-> t - 1],
      [t \in 1..L |-> 2 * (t - 1)],
      [t \in 1..L |-> IF t <= 2 THEN t ELSE 0] }

\* model.linear_list[process_idx](data): the pre-activations of a sequence
HidSeqs(L, K) ==
    { [t \in 1..L |-> [k \in 1..K |-> k - 2]],
      [t \in 1..L |-> [k \in 1..K |-> 11 * k - t]] }

\* torch.rand: draw s of interval t, a number of [0, 1)
DrawPatterns ==
    { [t \in 1..MaxLen |-> [s \in 1..num_samples |-> QZero]],
      [t \in 1..MaxLen |-> [s \in 1..num_samples |-> <<1, 2>>]],
      [t \in 1..MaxLen |-> [s \in 1..num_samples |->
           IF (s + t) % 2 = 0 THEN QZero ELSE <<3, 4>>]] }

\* softplus(x, beta) for a rational x and a rational beta > 0
Softplus(x, bt) ==
    LET temp == QMul(bt, x)
    IN  ISp(IF temp[1] > 20 * temp[2] THEN QInt(20) ELSE temp, bt)

\* get_non_pad_mask(types).squeeze(2)
GetNonPadMask(ty) ==
    [b \in 1..Len(ty) |-> [t \in 1..Len(ty[b]) |-> IF ty[b][t] # 0 THEN 1 ELSE 0]]

\* mutant: the comparison is (types == i)
TypeMask_OffByOne(ty, K) ==
    [b \in 1..Len(ty) |-> [t \in 1..Len(ty[b]) |->
        [i \in 1..K |-> IF ty[b][t] = i - 1 THEN 1 ELSE 0]]]

\* type_mask[:, :, i] = (types == i + 1), for i in range(num_types)
TypeMask(ty, K) ==
    [b \in 1..Len(ty) |-> [t \in 1..Len(ty[b]) |->
        [i \in 1..K |-> IF ty[b][t] = i THEN 1 ELSE 0]]]

\* softplus(all_hid, torch.abs(model.beta))
AllLambda(hid, bt) ==
    [b \in 1..Len(hid) |-> [t \in 1..Len(hid[b]) |->
        [i \in 1..Len(hid[b][t]) |-> Softplus(QInt(hid[b][t][i]), QInt(Abs(bt)))]]]

\* torch.sum(all_lambda * type_mask, dim=2)
TypeLambda(lam, tmask) ==
    [b \in 1..Len(lam) |-> [t \in 1..Len(lam[b]) |->
        ISeqSum([i \in 1..Len(lam[b][t]) |-> IMulMask(lam[b][t][i], tmask[b][t][i])])]]

\* A value of the Monte Carlo integral is a bag of products q * lam, lam the
\* sum of the sampled intensities and q = diff_time / num_samples; a product
\* with q = 0 is 0 and is left out, so 0 is the empty bag.
UProduct(lam, d) ==
    IF d = 0 /\ lam.k = "fin" THEN EmptyBag
    ELSE SetToBag({[q |-> Q(d, num_samples), lam |-> lam]})

RECURSIVE USeqSum(_)
USeqSum(s) == IF s = <<>> THEN EmptyBag ELSE Head(s) (+) USeqSum(Tail(s))

\* compute_integral_unbiased(model, process_idx, data, time, non_pad_mask,
\* type_mask), rand being the draws of torch.rand
UnbiasedIntegral(hid, al, bt, tm, mask, tmask, rand) ==
    LET diff_time == DiffTime(tm, mask)
    IN  [b \in 1..Len(tm) |-> [t \in 1..(Len(tm[b]) - 1) |->
           LET temp_time == [s \in 1..num_samples |->
                   QDivInt(QMul(QInt(diff_time[b][t]), rand[t][s]), tm[b][t] + 1)]
               temp_hid == SeqSum([i \in 1..Len(hid[b][t + 1]) |->
                   hid[b][t + 1][i] * tmask[b][t + 1][i]])
               lam == ISeqSum([s \in 1..num_samples |->
                   Softplus(QAdd(QInt(temp_hid), QMul(al, temp_time[s])), QInt(Abs(bt)))])
           IN  UProduct(lam, diff_time[b][t])]]

InitLL ==
    /\ pc = "call"
    /\ num_types \in TypeCounts
    /\ beta \in BetaSet
    /\ alpha \in AlphaSet
    /\ \E L \in 2..MaxLen :
          /\ all_hid \in [1..1 -> HidSeqs(L, num_types)]
          /\ time \in [1..1 -> TimeSeqs(L)]
          /\ types \in [1..1 -> [1..L -> 0..num_types]]
    /\ non_pad_mask = <<>>
    /\ all_lambda = <<>> /\ type_mask = <<>> /\ type_lambda = <<>>
    /\ event_ll = <<>> /\ unbiased_integral = <<>> /\ non_event_ll = <<>>
    /\ event = <<>> /\ result = <<>>
    /\ prediction = <<>> /\ loss_func = "none"
    /\ truth = <<>> /\ pred_type = <<>> /\ correct_num = 0
    /\ true_list = <<>> /\ pred_list = <<>> /\ loss_r = FZero
    /\ IdleLS /\ IdleTM

\* log_likelihood(model, process_idx, data, time, types)
LogLikelihood ==
    /\ pc = "call"
    /\ \E rand \in DrawPatterns :
          LET mask == GetNonPadMask(types)
              tmask == TypeMask(types, num_types)
              lam == AllLambda(all_hid, beta)
          IN  /\ non_pad_mask' = mask
              /\ type_mask' = tmask
              /\ all_lambda' = lam
              /\ type_lambda' = FilledEvent(TypeLambda(all_lambda', type_mask'), non_pad_mask')
              /\ event_ll' = [b \in 1..Len(types) |-> LSeqSum(LogAll(type_lambda')[b])]
              /\ unbiased_integral' =
                    UnbiasedIntegral(all_hid, alpha, beta, time, non_pad_mask', type_mask', rand)
              /\ non_event_ll' = [b \in 1..Len(types) |-> USeqSum(unbiased_integral'[b])]
    /\ pc' = "done"
    /\ UNCHANGED <<num_types, beta, alpha, all_hid, time, types, event, result,
                   prediction, loss_func, truth, pred_type, correct_num,
                   true_list, pred_list, loss_r, lsvars, tmvars>>

NextLL == LogLikelihood

SpecLL == InitLL /\ [][NextLL]_vars

\* C9: the type mask of log_likelihood is one-hot: entry k-1 alone is 1 at a
\* position of type k in 1..num_types, all entries are 0 at a padding
\* position; the intensity selected at a real position is that of its true
\* type, and the event term of a sequence is the sum over its real positions
\* of log(that intensity + 1e-9).
C9_OneHotTypeMask ==
    pc = "done" =>
       \A b \in 1..Len(types) :
          LET real == {t \in 1..Len(types[b]) : types[b][t] # 0}
          IN  /\ \A t \in 1..Len(types[b]) : \A i \in 1..num_types :
                    type_mask[b][t][i] = IF types[b][t] = i THEN 1 ELSE 0
              /\ \A t \in 1..Len(types[b]) :
                    types[b][t] = 0 => SeqSum(type_mask[b][t]) = 0
              /\ \A t \in real :
                    /\ SeqSum(type_mask[b][t]) = 1
                    /\ type_lambda[b][t] = AddEps(all_lambda[b][t][types[b][t]])
                    /\ all_lambda[b][t][types[b][t]] =
                          Softplus(QInt(all_hid[b][t][types[b][t]]), QInt(Abs(beta)))
              /\ event_ll[b] =
                    LSumOver(real, [t \in real |->
                        Log(AddEps(all_lambda[b][t][types[b][t]]))])

C9_Witness ==
    /\ pc = "done"
    /\ \E t, u, v \in 1..Len(types[1]) :
          /\ types[1][t] = 1 /\ types[1][u] = num_types /\ num_types > 1
          /\ types[1][v] = 0
          /\ all_lambda[1][t][1] # all_lambda[1][t][2]
    /\ event_ll[1] # LZero

\* C10: whatever the random draws, compute_integral_unbiased yields exactly 0
\* for every interval (t, t+1) whose later position is padding, and one entry
\* per adjacent pair of positions; the non-event term of a sequence is the
\* sum over the intervals that end at a real event.
C10_UnbiasedPaddingZero ==
    pc = "done" =>
       \A b \in 1..Len(types) :
          LET ends == {t \in 1..(Len(types[b]) - 1) : non_pad_mask[b][t + 1] # 0}
          IN  /\ Len(unbiased_integral[b]) = Len(types[b]) - 1
              /\ \A t \in 1..(Len(types[b]) - 1) :
                    non_pad_mask[b][t + 1] = 0 => unbiased_integral[b][t] = EmptyBag
              /\ non_event_ll[b] =
                    USeqSum([t \in 1..(Len(types[b]) - 1) |->
                        IF t \in ends THEN unbiased_integral[b][t] ELSE EmptyBag])

C10_Witness ==
    /\ pc = "done"
    /\ \E t, u \in 1..(Len(types[1]) - 1) :
          /\ non_pad_mask[1][t + 1] = 0 /\ non_pad_mask[1][t] = 1
          /\ time[1][t + 1] # time[1][t]
          /\ non_pad_mask[1][u + 1] = 1 /\ unbiased_integral[1][u] # EmptyBag
          /\ \E x \in DOMAIN unbiased_integral[1][u] : Cardinality(DOMAIN x.lam.sp) > 1

====
